---------------------------- MODULE Spec2Model ----------------------------
(***************************************************************************)
(* Lint rules of deno_lint: no-fallthrough, getter-return, no-cond-assign. *)
(* Each rule is a visitor over one module's syntax tree that appends to    *)
(* the diagnostics of the shared Context.  A rule's run is modelled as a   *)
(* state machine whose initial state holds the parsed module together with *)
(* the position-keyed annotations (control-flow metadata, comments).       *)
(*                                                                         *)
(* Spans are modelled as paths into the tree (a tuple of child indices),   *)
(* so distinct nodes have distinct spans.  Option<T> is a tuple of length  *)
(* 0 (None) or 1 (Some).  Text is a tuple of one-character strings.        *)
(***************************************************************************)
EXTENDS Integers, Sequences, FiniteSets, TLC

VARIABLES
  pc,                 \* position of the running rule: "start", "cases", "done", ...
  diagnostics,        \* Context::diagnostics, in order of emission
  ft_cases,           \* no-fallthrough: the cases of the switch statement
  leading_comments,   \* Context::leading_comments, keyed by position
  trailing_comments,  \* Context::trailing_comments, keyed by position
  case_idx,           \* no-fallthrough: index of the next case of the loop
  should_emit_err,    \* no-fallthrough: local of visit_switch_cases
  prev_span,          \* no-fallthrough: local of visit_switch_cases
  gr_module,          \* getter-return: the root node of the module
  getter_name,        \* GetterReturnVisitor::getter_name
  has_return,         \* GetterReturnVisitor::has_return
  errors,             \* GetterReturnVisitor::errors, a map from span to message
  gr_stack,           \* getter-return: what is left of the traversal, innermost first
  ca_module,          \* no-cond-assign: the root node of the module
  ca_work             \* no-cond-assign: the nodes still to visit, in source order

ft_vars == <<ft_cases, leading_comments, trailing_comments, case_idx,
             should_emit_err, prev_span>>

gr_vars == <<gr_module, getter_name, has_return, errors, gr_stack>>

ca_vars == <<ca_module, ca_work>>

vars == <<pc, diagnostics, ft_vars, gr_vars, ca_vars>>

-----------------------------------------------------------------------------
(* Bounds of the model *)

MaxCases == 3
MaxStmts == 3
MaxComments == 1
MaxDepth == 2
MaxExprDepth == 2

-----------------------------------------------------------------------------
(* Generic helpers *)

None == <<>>
Some(x) == <<x>>

SeqsUpTo(S, n) == UNION {[1..k -> S] : k \in 0..n}

DUMMY_SP == <<>>

Lo(span) == [of |-> span, at |-> "lo"]
Hi(span) == [of |-> span, at |-> "hi"]

\* HashMap::get
MapGet(map, key) == IF key \in DOMAIN map THEN Some(map[key]) ELSE None

add_diagnostic(diags, span, code, message) ==
  Append(diags, [span |-> span, code |-> code, message |-> message])

CountAt(diags, span) == Cardinality({k \in 1..Len(diags) : diags[k].span = span})

-----------------------------------------------------------------------------
(* Text *)

UpperChars == <<"A","B","C","D","E","F","G","H","I","J","K","L","M",
                "N","O","P","Q","R","S","T","U","V","W","X","Y","Z">>
LowerChars == <<"a","b","c","d","e","f","g","h","i","j","k","l","m",
                "n","o","p","q","r","s","t","u","v","w","x","y","z">>

to_ascii_lowercase_char(c) ==
  IF \E k \in 1..Len(UpperChars) : UpperChars[k] = c
    THEN LowerChars[CHOOSE k \in 1..Len(UpperChars) : UpperChars[k] = c]
    ELSE c

to_ascii_lowercase(text) == [k \in 1..Len(text) |-> to_ascii_lowercase_char(text[k])]

contains(text, pat) ==
  \E k \in 1..(Len(text) - Len(pat) + 1) : SubSeq(text, k, k + Len(pat) - 1) = pat

Fallthrough == <<"f","a","l","l","t","h","r","o","u","g","h">>
FallsThrough == <<"f","a","l","l","s"," ","t","h","r","o","u","g","h">>
FallThrough == <<"f","a","l","l"," ","t","h","r","o","u","g","h">>

allow_fall_through_nocase(comments) ==
  \E k \in 1..Len(comments) :
    \/ contains(comments[k], Fallthrough)
    \/ contains(comments[k], FallsThrough)
    \/ contains(comments[k], FallThrough)

allow_fall_through(comments) ==
  \E k \in 1..Len(comments) :
    LET l == to_ascii_lowercase(comments[k]) IN
      \/ contains(l, Fallthrough)
      \/ contains(l, FallsThrough)
      \/ contains(l, FallThrough)

-----------------------------------------------------------------------------
(* no-fallthrough: the syntax tree and its annotations *)

\* control-flow metadata of a statement: absent, or whether it stops execution
NoMeta == None
MetaOf(stops) == Some([stops |-> stops])

ExprStmts == {[kind |-> "Expr", meta |-> m, stmts |-> 0, cases |-> <<>>] :
                m \in {NoMeta, MetaOf(FALSE), MetaOf(TRUE)}}

EmptyBlockStmt == [kind |-> "Block", meta |-> MetaOf(FALSE), stmts |-> 0, cases |-> <<>>]

\* switch (bar) { case 2: a(); case 3: break; } nested in a case body
InnerCases ==
  << [test |-> Some("e"),
      cons |-> <<[kind |-> "Expr", meta |-> MetaOf(FALSE), stmts |-> 0, cases |-> <<>>]>>],
     [test |-> Some("e"),
      cons |-> <<[kind |-> "Expr", meta |-> MetaOf(TRUE), stmts |-> 0, cases |-> <<>>]>>] >>

SwitchStmt == [kind |-> "Switch", meta |-> MetaOf(FALSE), stmts |-> 0, cases |-> InnerCases]

Stmts == ExprStmts \cup {EmptyBlockStmt, SwitchStmt}

\* the statements of a switch in source order, and the case each belongs to
Owners(n, k) == {o \in [1..k -> 1..n] : \A a, b \in 1..k : a <= b => o[a] <= o[b]}

ConsOf(flat, owner, i) ==
  LET idxs == {j \in 1..Len(flat) : owner[j] = i} IN
    IF idxs = {} THEN <<>>
    ELSE SubSeq(flat, CHOOSE a \in idxs : \A b \in idxs : a <= b,
                      CHOOSE a \in idxs : \A b \in idxs : a >= b)

\* at most one default case; d = 0: none
MakeCases(n, flat, owner, d) ==
  [i \in 1..n |-> [test |-> IF i = d THEN None ELSE Some("e"),
                   cons |-> ConsOf(flat, owner, i)]]

SwitchInputs ==
  UNION {{MakeCases(n, flat, owner, d) :
            flat \in [1..k -> Stmts], owner \in Owners(n, k), d \in 0..n} :
         n \in 0..MaxCases, k \in 0..MaxStmts}

\* comment texts
TxtFallsThrough == <<" ","f","a","l","l","s"," ","t","h","r","o","u","g","h"," ">>
TxtFallThroughCaps == <<" ","F","A","L","L"," ","T","H","R","O","U","G","H"," ">>
TxtFallthroughMixed == <<" ","F","a","l","l","t","h","r","o","u","g","h"," ">>
TxtFallingThrough == <<" ","f","a","l","l","i","n","g"," ","t","h","r","o","u","g","h"," ">>
TxtComment == <<" ","c","o","m","m","e","n","t">>

CommentLists == {<<TxtFallsThrough>>, <<TxtFallThroughCaps>>, <<TxtFallingThrough>>,
                 <<TxtComment>>, <<TxtComment, TxtFallthroughMixed>>}

LeadingPositions(cases) == {Lo(<<i>>) : i \in 1..Len(cases)}

TrailingPositions(cases) ==
  UNION {{Hi(<<i, j>>) : j \in 1..Len(cases[i].cons)} : i \in 1..Len(cases)}

CommentMaps(positions) ==
  UNION {[D -> CommentLists] : D \in {D \in SUBSET positions : Cardinality(D) <= MaxComments}}

Restrict(f, S) == [x \in (DOMAIN f) \cap S |-> f[x]]

-----------------------------------------------------------------------------
(* no-fallthrough: NoFallthroughVisitor *)

FallthroughMessage == "Fallthrough is not allowed"

\* self.context.control_flow.meta(stmt.span().lo)
control_flow_meta(stmt) == stmt.meta

\* metadata.map(|v| v.stops_execution()).unwrap_or(false)
StopsExecution(stmt) ==
  LET metadata == control_flow_meta(stmt) IN
    IF metadata = None THEN FALSE ELSE metadata[1].stops

\* the span the diagnostic is attached to
ReportSpanNext(prev, case_span) == case_span

ReportSpan(prev, case_span) == prev

\* leading comment of the case that is fallen into
LeadingAllows(case_span) ==
  LET comments == MapGet(leading_comments, Lo(case_span)) IN
    comments # None /\ allow_fall_through(comments[1])

TrailingAllows(stmt_span) ==
  LET comments == MapGet(trailing_comments, Hi(stmt_span)) IN
    comments # None /\ allow_fall_through(comments[1])

\* the loop over case.cons; continued: the loop left by `continue 'cases`
RECURSIVE ScanStmts(_, _, _, _, _)
ScanStmts(cons, case_span, idx, stops_exec, emit) ==
  IF idx > Len(cons) THEN [should_emit_err |-> emit, continued |-> FALSE]
  ELSE
    LET last == (idx = Len(cons))
        stops == stops_exec \/ StopsExecution(cons[idx])
        emit2 == IF stops THEN FALSE ELSE emit
    IN IF last /\ TrailingAllows(Append(case_span, idx))
         THEN [should_emit_err |-> FALSE, continued |-> TRUE]
         ELSE ScanStmts(cons, case_span, idx + 1, stops, emit2)

IsEmpty(cons) ==
  Len(cons) = 0 \/ (cons[1].kind = "Block" /\ cons[1].stmts = 0)

NextCaseVerdictSwapped(emit, empty, cases, i) ==
  IF i + 1 <= Len(cases)
    THEN IF cases[i + 1].test = None
           THEN (IF empty THEN FALSE ELSE emit)
           ELSE (IF empty THEN TRUE ELSE emit)
    ELSE emit

NextCaseVerdict(emit, empty, cases, i) ==
  IF i + 1 <= Len(cases)
    THEN IF cases[i + 1].test = None
           THEN (IF empty THEN TRUE ELSE emit)
           ELSE (IF empty THEN FALSE ELSE emit)
    ELSE emit

RECURSIVE VisitSwitchCasesFrom(_, _, _, _)
RECURSIVE VisitCaseChildren(_, _, _, _)
RECURSIVE CaseIteration(_, _, _, _)

\* case.visit_with(parent, self): nested switch statements are visited first
VisitCaseChildren(cons, case_span, j, diags) ==
  IF j > Len(cons) THEN diags
  ELSE VisitCaseChildren(cons, case_span, j + 1,
         IF cons[j].kind = "Switch"
           THEN VisitSwitchCasesFrom(cons[j].cases, Append(case_span, j), 1,
                  [should_emit_err |-> FALSE, prev_span |-> DUMMY_SP, diags |-> diags]).diags
           ELSE diags)

\* one iteration of the loop 'cases
CaseIteration(cases, base, i, st) ==
  LET case == cases[i]
      span == Append(base, i)
      d1 == VisitCaseChildren(case.cons, span, 1, st.diags)
      d2 == IF st.should_emit_err /\ ~LeadingAllows(span)
              THEN add_diagnostic(d1, ReportSpan(st.prev_span, span),
                                  "no-fallthrough", FallthroughMessage)
              ELSE d1
      scan == ScanStmts(case.cons, span, 1, FALSE, TRUE)
  IN [should_emit_err |->
        IF scan.continued THEN FALSE
        ELSE NextCaseVerdict(scan.should_emit_err, IsEmpty(case.cons), cases, i),
      prev_span |-> span,
      diags |-> d2]

VisitSwitchCasesFrom(cases, base, i, st) ==
  IF i > Len(cases) THEN st
  ELSE VisitSwitchCasesFrom(cases, base, i + 1, CaseIteration(cases, base, i, st))

FTInit ==
  /\ pc = "start"
  /\ diagnostics = <<>>
  /\ ft_cases \in SwitchInputs
  /\ \E cm \in CommentMaps(LeadingPositions(ft_cases) \cup TrailingPositions(ft_cases)) :
       /\ leading_comments = Restrict(cm, LeadingPositions(ft_cases))
       /\ trailing_comments = Restrict(cm, TrailingPositions(ft_cases))
  /\ case_idx = 0
  /\ should_emit_err = FALSE
  /\ prev_span = DUMMY_SP
  /\ gr_module = <<>>
  /\ getter_name = None
  /\ has_return = FALSE
  /\ errors = <<>>
  /\ gr_stack = <<>>
  /\ ca_module = <<>>
  /\ ca_work = <<>>

\* lint_module down to the entry of visit_switch_cases
FTEnter ==
  /\ pc = "start"
  /\ pc' = "cases"
  /\ case_idx' = 1
  /\ should_emit_err' = FALSE
  /\ prev_span' = DUMMY_SP
  /\ UNCHANGED <<diagnostics, ft_cases, leading_comments, trailing_comments, gr_vars, ca_vars>>

FTCase ==
  /\ pc = "cases"
  /\ case_idx <= Len(ft_cases)
  /\ LET st == CaseIteration(ft_cases, <<>>, case_idx,
                 [should_emit_err |-> should_emit_err, prev_span |-> prev_span,
                  diags |-> diagnostics])
     IN /\ should_emit_err' = st.should_emit_err
        /\ prev_span' = st.prev_span
        /\ diagnostics' = st.diags
  /\ case_idx' = case_idx + 1
  /\ UNCHANGED <<pc, ft_cases, leading_comments, trailing_comments, gr_vars, ca_vars>>

FTReturn ==
  /\ pc = "cases"
  /\ case_idx > Len(ft_cases)
  /\ pc' = "done"
  /\ UNCHANGED <<diagnostics, ft_vars, gr_vars, ca_vars>>

FTNext == FTEnter \/ FTCase \/ FTReturn

SpecFT == FTInit /\ [][FTNext]_vars

-----------------------------------------------------------------------------
(* no-fallthrough: properties *)

SuppressionTexts == {TxtFallsThrough, TxtFallThroughCaps, TxtFallthroughMixed}

IsSuppression(comments) == \E k \in 1..Len(comments) : comments[k] \in SuppressionTexts

NumCases == Len(ft_cases)

\* the loop has finished the iteration of case i
Processed(i) == pc = "done" \/ (pc = "cases" /\ case_idx > i)

TopCount(i) == CountAt(diagnostics, <<i>>)

LastStmtSpan(i) == <<i, Len(ft_cases[i].cons)>>

HasTrailingComment(i) ==
  Len(ft_cases[i].cons) > 0 /\ Hi(LastStmtSpan(i)) \in DOMAIN trailing_comments

HasTrailingSuppression(i) ==
  HasTrailingComment(i) /\ IsSuppression(trailing_comments[Hi(LastStmtSpan(i))])

HasLeadingComment(i) == Lo(<<i>>) \in DOMAIN leading_comments

HasLeadingSuppression(i) ==
  HasLeadingComment(i) /\ IsSuppression(leading_comments[Lo(<<i>>)])

OracleStops(i) ==
  \E j \in 1..Len(ft_cases[i].cons) : ft_cases[i].cons[j].meta = MetaOf(TRUE)

FirstIsEmptyBlock(i) ==
  Len(ft_cases[i].cons) > 0 /\ ft_cases[i].cons[1].kind = "Block"
    /\ ft_cases[i].cons[1].stmts = 0

\* a body that runs into the next case, with nothing that marks it as intended
FallsThroughUnmarked(i) ==
  /\ i < NumCases
  /\ Len(ft_cases[i].cons) > 0
  /\ ~FirstIsEmptyBlock(i)
  /\ ~OracleStops(i)
  /\ ~HasTrailingSuppression(i)
  /\ ~HasLeadingSuppression(i + 1)

OneFallthroughAt(span) ==
  /\ CountAt(diagnostics, span) = 1
  /\ \A k \in 1..Len(diagnostics) :
       diagnostics[k].span = span =>
         diagnostics[k].code = "no-fallthrough" /\ diagnostics[k].message = FallthroughMessage

\* C1: a non-empty case body in which no statement stops execution, with no
\* suppression comment trailing its last statement or leading the next case,
\* gets exactly one diagnostic "Fallthrough is not allowed"; it is emitted
\* when the next case is reached and carries the span of the case that
\* falls through, not of the case fallen into.
C1_FallthroughReportedAtPrevSpan ==
  \A i \in 1..NumCases :
    FallsThroughUnmarked(i) =>
      /\ Processed(i + 1) => OneFallthroughAt(<<i>>)
      /\ ~Processed(i + 1) => TopCount(i) = 0
      /\ ~Processed(i + 2) => TopCount(i + 1) = 0

C1_Witness ==
  /\ pc = "done"
  /\ \E i \in 1..NumCases : FallsThroughUnmarked(i) /\ OneFallthroughAt(<<i>>)

\* C2: a case with a statement that the oracle reports as stopping execution
\* never gets a diagnostic at its span.
C2_StoppingCaseNeverReported ==
  \A i \in 1..NumCases : OracleStops(i) => TopCount(i) = 0

\* C3: a suppression comment trailing the last statement of case i or leading
\* case i+1 suppresses the diagnostic of case i, whatever the oracle says and
\* whether or not the body is empty; a comment without one of the three
\* phrases at these places leaves the case reported.
C3_SuppressionCommentWins ==
  \A i \in 1..NumCases :
    /\ (i < NumCases /\ (HasTrailingSuppression(i) \/ HasLeadingSuppression(i + 1)))
         => TopCount(i) = 0
    /\ (FallsThroughUnmarked(i) /\ (HasTrailingComment(i) \/ HasLeadingComment(i + 1))
          /\ Processed(i + 1))
         => OneFallthroughAt(<<i>>)

C3_Witness ==
  /\ pc = "done"
  /\ \E i \in 1..NumCases :
       /\ i < NumCases
       /\ Len(ft_cases[i].cons) > 0
       /\ ~FirstIsEmptyBlock(i)
       /\ ~OracleStops(i)
       /\ HasLeadingSuppression(i + 1)
       /\ leading_comments[Lo(<<i + 1>>)] = <<TxtFallThroughCaps>>
       /\ TopCount(i) = 0

\* C4: without a suppression comment, a case with no statements is reported
\* (at its own span) when the next case is the default case and is not
\* reported when the next case is a non-default case.
C4_EmptyCaseBeforeDefault ==
  \A i \in 1..NumCases :
    (i < NumCases /\ Len(ft_cases[i].cons) = 0 /\ ~HasLeadingSuppression(i + 1)) =>
      IF ft_cases[i + 1].test = None
        THEN /\ Processed(i + 1) => OneFallthroughAt(<<i>>)
             /\ ~Processed(i + 1) => TopCount(i) = 0
        ELSE TopCount(i) = 0

C4_Witness ==
  /\ pc = "done"
  /\ NumCases = 3
  /\ Len(ft_cases[1].cons) = 0
  /\ ft_cases[2].test = None
  /\ OneFallthroughAt(<<1>>)

\* an empty block followed by further statements
EmptyBlockThenMore(i) == FirstIsEmptyBlock(i) /\ Len(ft_cases[i].cons) >= 2

\* C13: a body whose first statement is an empty block followed by further
\* statements is judged as a non-empty body: with no stopping statement and
\* no suppression comment it is reported once the next case is reached,
\* whether that case is the default case or not.
C13_EmptyBlockThenStatementsFlagged ==
  \A i \in 1..NumCases :
    (i < NumCases /\ EmptyBlockThenMore(i) /\ ~OracleStops(i)
       /\ ~HasTrailingSuppression(i) /\ ~HasLeadingSuppression(i + 1)
       /\ Processed(i + 1))
      => OneFallthroughAt(<<i>>)

-----------------------------------------------------------------------------
(* getter-return: the syntax tree and its annotations *)

\* control-flow metadata of a function body: whether its end can be reached
Continues == Some([continues |-> TRUE])
Ends == Some([continues |-> FALSE])

IdentKey(sym) == [kind |-> "Ident", sym |-> sym]
ComputedKey == [kind |-> "Computed", sym |-> ""]

NoCall == [callee |-> [kind |-> "None", obj |-> "", prop |-> ""], nargs |-> 0, props |-> <<>>]

\* a node; items are the nodes of its body in source order
MakeNode(kind, method_kind, key, meta, call, arg, items) ==
  [kind |-> kind, method_kind |-> method_kind, key |-> key, meta |-> meta,
   call |-> call, arg |-> arg, items |-> items]

\* return <value>;  and  return;
ReturnStmts == {MakeNode("Return", "", ComputedKey, None, NoCall, a, <<>>) : a \in BOOLEAN}

\* callee shapes of a call expression
MemberCallee(obj, prop) == [kind |-> "Member", obj |-> obj, prop |-> prop]
IdentCallee == [kind |-> "Ident", obj |-> "", prop |-> "f"]
OptChainCallee == [kind |-> "OptChain", obj |-> "Object", prop |-> "defineProperty"]

\* properties of the object literal passed as third argument
GetFn == [kind |-> "KeyValue", key |-> IdentKey("get"), value |-> "Fn"]
GetArrowBlock == [kind |-> "KeyValue", key |-> IdentKey("get"), value |-> "ArrowBlock"]
GetArrowExpr == [kind |-> "KeyValue", key |-> IdentKey("get"), value |-> "ArrowExpr"]
GetMethod == [kind |-> "Method", key |-> IdentKey("get"), value |-> "Fn"]
OtherProp == [kind |-> "KeyValue", key |-> IdentKey("enumerable"), value |-> "Lit"]

DefineProperty(props) ==
  [callee |-> MemberCallee("Object", "defineProperty"), nargs |-> 3, props |-> props]

CallShapes ==
  {DefineProperty(<<GetArrowBlock>>), DefineProperty(<<GetArrowExpr>>),
   DefineProperty(<<GetMethod>>),
   DefineProperty(<<OtherProp, GetFn>>), DefineProperty(<<GetFn, OtherProp>>),
   [callee |-> IdentCallee, nargs |-> 3, props |-> <<GetFn>>],
   [callee |-> OptChainCallee, nargs |-> 3, props |-> <<GetFn>>],
   [callee |-> MemberCallee("Reflect", "defineProperty"), nargs |-> 3, props |-> <<GetFn>>],
   [callee |-> MemberCallee("Object", "defineProperties"), nargs |-> 3, props |-> <<GetFn>>],
   [callee |-> MemberCallee("", "defineProperty"), nargs |-> 3, props |-> <<GetFn>>],
   [callee |-> MemberCallee("Object", "defineProperties"), nargs |-> 2, props |-> <<GetFn>>]}

\* the key of a getter at nesting depth d, so that nested getters differ in name
KeyAt(d) == IdentKey(IF d = 1 THEN "inner" ELSE IF d = 2 THEN "outer" ELSE "top")

\* the nodes with a body, without their items; metas: the oracle's answers
Shells(d, metas) ==
  {MakeNode("GetterProp", "Getter", KeyAt(d), m, NoCall, FALSE, <<>>) : m \in metas}
  \cup {MakeNode("ClassMethod", "Getter", KeyAt(d), m, NoCall, FALSE, <<>>) : m \in metas}
  \cup {MakeNode("PrivateMethod", "Getter", KeyAt(d), m, NoCall, FALSE, <<>>) : m \in metas}
  \cup {MakeNode("Call", "", ComputedKey, m, DefineProperty(<<GetFn>>), FALSE, <<>>) :
          m \in metas}
  \cup {MakeNode("GetterProp", "Getter", ComputedKey, Continues, NoCall, FALSE, <<>>),
        MakeNode("ClassMethod", "Method", KeyAt(d), Continues, NoCall, FALSE, <<>>),
        MakeNode("PrivateMethod", "Method", KeyAt(d), Continues, NoCall, FALSE, <<>>),
        MakeNode("Function", "", ComputedKey, Continues, NoCall, FALSE, <<>>)}
  \cup {MakeNode("Call", "", ComputedKey, Continues, c, FALSE, <<>>) : c \in CallShapes}

WithItems(node, items) == [node EXCEPT !.items = items]

\* a body: at most one return before and after at most one nested node
ReturnsOnly == {<<>>} \cup {<<r>> : r \in ReturnStmts}

RECURSIVE Nodes(_, _)
Bodies(d, metas) ==
  IF d = 0 THEN ReturnsOnly
  ELSE {pre \o inner \o post :
          pre \in ReturnsOnly,
          inner \in {<<>>} \cup {<<n>> : n \in Nodes(d, metas)},
          post \in ReturnsOnly}

Nodes(d, metas) ==
  {WithItems(shell, items) : shell \in Shells(d, metas), items \in Bodies(d - 1, metas)}

\* spans: a node's span is its path from the root
RootSpan == <<1>>
BodySpan(span) == Append(span, 0)
PropSpan(span) == Append(span, -1)

RECURSIVE NodeAt(_, _)
NodeAt(node, rel) ==
  IF rel = <<>> THEN node ELSE NodeAt(node.items[Head(rel)], Tail(rel))

GRNode(span) == NodeAt(gr_module, Tail(span))

-----------------------------------------------------------------------------
(* getter-return: GetterReturnVisitor *)

\* Key::get_key: the name of a statically known key
get_key(key) == IF key.kind = "Ident" THEN Some(key.sym) ELSE None

ExpectedMessage(name) == <<"Expected to return a value in ", name, ".">>
AlwaysExpectedMessage(name) == <<"Expected ", name, " to always return a value.">>

\* BTreeMap::insert
MapInsert(map, key, value) ==
  [x \in (DOMAIN map) \cup {key} |-> IF x = key THEN value ELSE map[x]]

report_expected(errs, name, span) == MapInsert(errs, span, ExpectedMessage(name[1]))

report_always_expected(errs, name, span) ==
  MapInsert(errs, span, AlwaysExpectedMessage(name[1]))

\* name.get_key().unwrap_or_else(|| "[GETTER]".to_string())
set_getter_name(key) ==
  Some(IF get_key(key) = None THEN "[GETTER]" ELSE get_key(key)[1])

\* the order of spans in the source
RECURSIVE SpanLess(_, _)
SpanLess(a, b) ==
  IF a = <<>> THEN b # <<>>
  ELSE IF b = <<>> THEN FALSE
  ELSE IF Head(a) # Head(b) THEN Head(a) < Head(b)
  ELSE SpanLess(Tail(a), Tail(b))

RECURSIVE SortSpans(_)
SortSpans(S) ==
  IF S = {} THEN <<>>
  ELSE LET m == CHOOSE x \in S : \A y \in S \ {x} : SpanLess(x, y)
       IN <<m>> \o SortSpans(S \ {m})

GetterReturnHint == "Return a value from the getter function"

\* report: one diagnostic per entry of errors, in the order of the map
ReportAll(errs) ==
  LET order == SortSpans(DOMAIN errs) IN
    [k \in 1..Len(order) |->
       [span |-> order[k], code |-> "getter-return", message |-> errs[order[k]],
        hint |-> GetterReturnHint]]

\* what is left to do: visit a node, check a getter, leave a getter, go on
\* with the properties of a call's third argument
Task(op, span, k, prev_name, prev_has_return) ==
  [op |-> op, span |-> span, k |-> k, prev_name |-> prev_name,
   prev_has_return |-> prev_has_return]

VisitTask(span) == Task("visit", span, 0, None, FALSE)
CheckTask(span) == Task("check", span, 0, None, FALSE)
PropsTask(span, k) == Task("props", span, k, None, FALSE)
LeaveTask(prev_name, prev_has_return) == Task("leave", <<>>, 0, prev_name, prev_has_return)

\* visit_children_with: the nodes of the body in source order
VisitChildren(span) ==
  [j \in 1..Len(GRNode(span).items) |-> VisitTask(Append(span, j))]

TopIs(op) == pc = "visit" /\ gr_stack # <<>> /\ Head(gr_stack).op = op

TopVisits(kind) == TopIs("visit") /\ GRNode(Head(gr_stack).span).kind = kind

GRInitWith(metas) ==
  /\ pc = "start"
  /\ diagnostics = <<>>
  /\ gr_module \in Nodes(MaxDepth, metas)
  /\ getter_name = None
  /\ has_return = FALSE
  /\ errors = <<>>
  /\ gr_stack = <<>>
  /\ ft_cases = <<>>
  /\ leading_comments = <<>>
  /\ trailing_comments = <<>>
  /\ case_idx = 0
  /\ should_emit_err = FALSE
  /\ prev_span = DUMMY_SP
  /\ ca_module = <<>>
  /\ ca_work = <<>>

\* the oracle has an entry for every function body
GRInit == GRInitWith({Continues, Ends})

\* the oracle may lack entries
GRInitMiss == GRInitWith({None, Continues, Ends})

\* lint_module: visitor.visit_module(module, module)
GRStart ==
  /\ pc = "start"
  /\ pc' = "visit"
  /\ gr_stack' = <<VisitTask(RootSpan)>>
  /\ UNCHANGED <<diagnostics, gr_module, getter_name, has_return, errors, ft_vars, ca_vars>>

\* visit_getter around the body of visit_class_method / visit_private_method
VisitMethod(kind) ==
  /\ TopVisits(kind)
  /\ LET span == Head(gr_stack).span
         node == GRNode(span)
     IN /\ getter_name' = IF node.method_kind = "Getter"
                            THEN set_getter_name(node.key) ELSE None
        /\ gr_stack' = VisitChildren(span) \o <<CheckTask(span)>>
                         \o <<LeaveTask(getter_name, has_return)>> \o Tail(gr_stack)
  /\ UNCHANGED <<pc, diagnostics, gr_module, has_return, errors, ft_vars, ca_vars>>

visit_class_method == VisitMethod("ClassMethod")

visit_private_method == VisitMethod("PrivateMethod")

visit_getter_prop ==
  /\ TopVisits("GetterProp")
  /\ LET span == Head(gr_stack).span
         node == GRNode(span)
     IN /\ getter_name' = set_getter_name(node.key)
        /\ gr_stack' = VisitChildren(span) \o <<CheckTask(span)>>
                         \o <<LeaveTask(getter_name, has_return)>> \o Tail(gr_stack)
  /\ UNCHANGED <<pc, diagnostics, gr_module, has_return, errors, ft_vars, ca_vars>>

\* a function, arrow function or object method: the default traversal
visit_function ==
  /\ TopVisits("Function")
  /\ gr_stack' = VisitChildren(Head(gr_stack).span) \o Tail(gr_stack)
  /\ UNCHANGED <<pc, diagnostics, gr_module, getter_name, has_return, errors, ft_vars, ca_vars>>

visit_return_stmt ==
  /\ TopVisits("Return")
  /\ LET span == Head(gr_stack).span
         node == GRNode(span)
     IN IF getter_name # None
          THEN /\ has_return' = TRUE
               /\ errors' = IF ~node.arg
                              THEN report_expected(errors, getter_name, span)
                              ELSE errors
          ELSE UNCHANGED <<has_return, errors>>
  /\ gr_stack' = Tail(gr_stack)
  /\ UNCHANGED <<pc, diagnostics, gr_module, getter_name, ft_vars, ca_vars>>

\* visit_call_expr: call_expr.visit_children_with(self), then the rest
visit_call_expr ==
  /\ TopVisits("Call")
  /\ LET span == Head(gr_stack).span
     IN gr_stack' = VisitChildren(span) \o <<PropsTask(span, 0)>> \o Tail(gr_stack)
  /\ UNCHANGED <<pc, diagnostics, gr_module, getter_name, has_return, errors, ft_vars, ca_vars>>

\* the callee tests of visit_call_expr: only a member callee can be turned down
CalleeRejected(callee) ==
  /\ callee.kind = "Member"
  /\ \/ (callee.obj # "" /\ callee.obj # "Object")
     \/ callee.prop # "defineProperty"

\* visit_call_expr after the children: the tests on the arguments and the callee
visit_call_expr_args ==
  /\ TopIs("props")
  /\ Head(gr_stack).k = 0
  /\ LET span == Head(gr_stack).span
         call == GRNode(span).call
     IN gr_stack' = IF call.nargs # 3 \/ CalleeRejected(call.callee)
                      THEN Tail(gr_stack)
                      ELSE <<PropsTask(span, 1)>> \o Tail(gr_stack)
  /\ UNCHANGED <<pc, diagnostics, gr_module, getter_name, has_return, errors, ft_vars, ca_vars>>

PropHasBody(prop) == prop.kind = "Method" \/ prop.value \in {"Fn", "ArrowBlock"}

\* visit_call_expr: one iteration of the loop over the properties of args[2]
visit_call_expr_prop ==
  /\ TopIs("props")
  /\ Head(gr_stack).k > 0
  /\ LET span == Head(gr_stack).span
         k == Head(gr_stack).k
         props == GRNode(span).call.props
     IN IF k > Len(props)
          THEN /\ gr_stack' = Tail(gr_stack)
               /\ UNCHANGED getter_name
          ELSE IF props[k].kind \in {"KeyValue", "Method"} /\ props[k].key.kind = "Ident"
            THEN IF props[k].key.sym # "get"
                   THEN /\ gr_stack' = Tail(gr_stack)
                        /\ UNCHANGED getter_name
                   ELSE /\ getter_name' = set_getter_name(props[k].key)
                        /\ gr_stack' =
                             (IF PropHasBody(props[k])
                                THEN VisitChildren(span) \o <<CheckTask(span)>>
                                ELSE <<>>)
                             \o <<LeaveTask(getter_name, has_return)>>
                             \o <<PropsTask(span, k + 1)>> \o Tail(gr_stack)
            ELSE /\ gr_stack' = <<PropsTask(span, k + 1)>> \o Tail(gr_stack)
                 /\ UNCHANGED getter_name
  /\ UNCHANGED <<pc, diagnostics, gr_module, has_return, errors, ft_vars, ca_vars>>

\* the span a getter is reported at
GetterSpan(span) == IF GRNode(span).kind = "Call" THEN PropSpan(span) ELSE span

\* self.context.control_flow.meta(getter_body_span.lo)
body_meta(span) == GRNode(span).meta

CheckGetterErrors(errs, name, seen_return, getter_span) ==
  IF seen_return
    THEN report_always_expected(errs, name, getter_span)
    ELSE report_expected(errs, name, getter_span)

\* check_getter; unwrap() of a missing entry panics and ends the run
check_getter ==
  /\ TopIs("check")
  /\ LET span == Head(gr_stack).span
         meta == body_meta(span)
     IN IF getter_name = None
          THEN /\ gr_stack' = Tail(gr_stack)
               /\ UNCHANGED <<pc, errors>>
          ELSE IF meta = None
            THEN /\ pc' = "panicked"
                 /\ gr_stack' = <<>>
                 /\ UNCHANGED errors
            ELSE /\ errors' = IF meta[1].continues
                                THEN CheckGetterErrors(errors, getter_name, has_return,
                                                       GetterSpan(span))
                                ELSE errors
                 /\ gr_stack' = Tail(gr_stack)
                 /\ UNCHANGED pc
  /\ UNCHANGED <<diagnostics, gr_module, getter_name, has_return, ft_vars, ca_vars>>

\* the end of visit_getter, had it restored the name alone
visit_getter_leave_name_only ==
  /\ TopIs("leave")
  /\ getter_name' = Head(gr_stack).prev_name
  /\ gr_stack' = Tail(gr_stack)
  /\ UNCHANGED <<pc, diagnostics, gr_module, has_return, errors, ft_vars, ca_vars>>

\* the end of visit_getter
visit_getter_leave ==
  /\ TopIs("leave")
  /\ getter_name' = Head(gr_stack).prev_name
  /\ has_return' = Head(gr_stack).prev_has_return
  /\ gr_stack' = Tail(gr_stack)
  /\ UNCHANGED <<pc, diagnostics, gr_module, errors, ft_vars, ca_vars>>

\* lint_module: visitor.report()
report ==
  /\ pc = "visit"
  /\ gr_stack = <<>>
  /\ diagnostics' = diagnostics \o ReportAll(errors)
  /\ pc' = "done"
  /\ UNCHANGED <<gr_module, getter_name, has_return, errors, gr_stack, ft_vars, ca_vars>>

GRNext ==
  \/ GRStart
  \/ visit_class_method
  \/ visit_private_method
  \/ visit_getter_prop
  \/ visit_function
  \/ visit_return_stmt
  \/ visit_call_expr
  \/ visit_call_expr_args
  \/ visit_call_expr_prop
  \/ check_getter
  \/ visit_getter_leave
  \/ report

SpecGR == GRInit /\ [][GRNext]_vars

SpecGRMiss == GRInitMiss /\ [][GRNext]_vars

-----------------------------------------------------------------------------
(* getter-return: properties *)

RECURSIVE SpansUnder(_, _)
SpansUnder(node, span) ==
  {span} \cup UNION {SpansUnder(node.items[j], Append(span, j)) : j \in 1..Len(node.items)}

GRSpans == SpansUnder(gr_module, RootSpan)

ChildSpans(span) == {Append(span, j) : j \in 1..Len(GRNode(span).items)}

IsPrefix(a, b) == Len(a) <= Len(b) /\ SubSeq(b, 1, Len(a)) = a

\* the getter shapes: accessor of a class or an object, or the function under
\* `get` as only property of Object.defineProperty's third argument
IsGetter(span) ==
  LET n == GRNode(span) IN
    \/ n.kind = "GetterProp"
    \/ n.kind \in {"ClassMethod", "PrivateMethod"} /\ n.method_kind = "Getter"
    \/ n.kind = "Call" /\ n.call \in {DefineProperty(<<GetFn>>),
                                      DefineProperty(<<GetArrowBlock>>),
                                      DefineProperty(<<GetMethod>>)}

NameOf(span) ==
  LET n == GRNode(span) IN
    IF n.kind = "Call" THEN "get"
    ELSE IF n.key.kind = "Ident" THEN n.key.sym ELSE "[GETTER]"

OracleContinues(span) == GRNode(span).meta = Continues
OracleEnds(span) == GRNode(span).meta = Ends

\* the return statements of the getter's own body
OwnReturns(span) == {c \in ChildSpans(span) : GRNode(c).kind = "Return"}

ReturnsBelow(span) == {c \in SpansUnder(GRNode(span), span) : GRNode(c).kind = "Return"}

AlwaysReturnsValue(span) ==
  /\ OracleEnds(span)
  /\ OwnReturns(span) # {}
  /\ \A r \in OwnReturns(span) : GRNode(r).arg

DiagCount(span) == CountAt(diagnostics, span)

MessageAt(span) ==
  diagnostics[CHOOSE k \in 1..Len(diagnostics) : diagnostics[k].span = span].message

\* C5 (first half): an inner getter without return statements in an outer getter
\* that returns a value on every path: one diagnostic, at the inner getter
C5_InnerReportedAlone ==
  pc = "done" =>
    \A o \in GRSpans : \A i \in ChildSpans(o) :
      (IsGetter(o) /\ IsGetter(i) /\ AlwaysReturnsValue(o)
         /\ ReturnsBelow(i) = {} /\ OracleContinues(i)) =>
        /\ Len(diagnostics) = 1
        /\ diagnostics[1].span = GetterSpan(i)
        /\ DiagCount(GetterSpan(o)) = 0

\* C5 (second half): a return statement of an inner getter is not credited to
\* the outer getter, which is reported with the no-return message
C5_OuterNotCredited ==
  pc = "done" =>
    \A o \in GRSpans : \A i \in ChildSpans(o) :
      (IsGetter(o) /\ IsGetter(i) /\ OracleContinues(o) /\ ReturnsBelow(o) = ReturnsBelow(i)
         /\ AlwaysReturnsValue(i)) =>
        /\ DiagCount(GetterSpan(o)) = 1
        /\ MessageAt(GetterSpan(o)) = ExpectedMessage(NameOf(o))

\* C5: nested getters are judged independently: a getter that never returns
\* inside a getter that always returns a value gives exactly one diagnostic,
\* at the inner getter; a return statement of an inner getter is never
\* credited to the outer getter.
C5_NestedGettersIndependent == C5_InnerReportedAlone /\ C5_OuterNotCredited

\* C6: a getter whose body end the oracle reports as reachable gets exactly
\* one diagnostic at its span: the no-return message when its body holds no
\* return statement, the always-return message when its own body holds one.
C6_OneDiagnosticPerFallingGetter ==
  pc = "done" =>
    \A g \in GRSpans :
      (IsGetter(g) /\ OracleContinues(g)) =>
        /\ DiagCount(GetterSpan(g)) = 1
        /\ ReturnsBelow(g) = {} => MessageAt(GetterSpan(g)) = ExpectedMessage(NameOf(g))
        /\ OwnReturns(g) # {} => MessageAt(GetterSpan(g)) = AlwaysExpectedMessage(NameOf(g))

\* C7: a getter whose every path ends in a return with a value gets no
\* diagnostic, whatever functions are nested in its body: none at its span
\* and none at a statement of its body or of the nested functions.
C7_ReturningGetterNotReported ==
  pc = "done" =>
    \A g \in GRSpans :
      (IsGetter(g) /\ AlwaysReturnsValue(g)
         /\ \A c \in ChildSpans(g) : GRNode(c).kind \in {"Return", "Function"}) =>
        \A k \in 1..Len(diagnostics) :
          /\ diagnostics[k].span # GetterSpan(g)
          /\ ~IsPrefix(g, diagnostics[k].span)

\* C10: a position the oracle has no entry for is taken as "no information":
\* the rule does not panic and the run reaches its end.
C10_OracleMissTolerated == pc # "panicked"

\* a getter directly in the body of another getter, with a body end the
\* oracle reports as reachable
NestedFallingGetter(o, i) ==
  /\ i \in ChildSpans(o)
  /\ IsGetter(o)
  /\ IsGetter(i)
  /\ OracleContinues(i)

\* C11: the message variant reported for a nested getter depends only on the
\* return statements of its own body: the no-return message when it has
\* none, the always-return message when it has one, whatever return
\* statements of the enclosing getter were visited before it was entered.
C11_NestedGetterStartsWithoutReturn ==
  pc = "done" =>
    \A o \in GRSpans : \A i \in GRSpans :
      NestedFallingGetter(o, i) =>
        /\ DiagCount(GetterSpan(i)) = 1
        /\ MessageAt(GetterSpan(i)) =
             IF ReturnsBelow(i) = {} THEN ExpectedMessage(NameOf(i))
                                     ELSE AlwaysExpectedMessage(NameOf(i))

\* the positions of the pending visit_getter exits in a stack
LeaveIdx(stack) == {k \in 1..Len(stack) : stack[k].op = "leave"}

FirstLeave(stack) == stack[CHOOSE k \in LeaveIdx(stack) : \A l \in LeaveIdx(stack) : k <= l]

\* a step keeps what is pending below the task it works on
KeepsPending ==
  gr_stack # <<>> =>
    /\ Len(gr_stack') >= Len(gr_stack) - 1
    /\ SubSeq(gr_stack', Len(gr_stack') - Len(gr_stack) + 2, Len(gr_stack')) = Tail(gr_stack)

\* a step that enters visit_getter notes the frame that is active before it
EntrySavesFrame ==
  Cardinality(LeaveIdx(gr_stack')) > Cardinality(LeaveIdx(gr_stack)) =>
    /\ Cardinality(LeaveIdx(gr_stack')) = Cardinality(LeaveIdx(gr_stack)) + 1
    /\ FirstLeave(gr_stack').prev_name = getter_name
    /\ FirstLeave(gr_stack').prev_has_return = has_return

\* the step that ends visit_getter makes the noted frame the active one
ExitRestoresFrame ==
  TopIs("leave") =>
    /\ getter_name' = Head(gr_stack).prev_name
    /\ has_return' = Head(gr_stack).prev_has_return

FrameSavedAndRestored == KeepsPending /\ EntrySavesFrame /\ ExitRestoresFrame

\* accessors and methods of classes and objects: the nodes visit_getter is
\* run for as a whole
IsMethodNode(span) == GRNode(span).kind \in {"GetterProp", "ClassMethod", "PrivateMethod"}

\* after a nested method or accessor with return statements, the enclosing
\* getter goes on with its own frame: its own name on a `return;` that
\* follows, and the no-return message when it has no return statement
OuterFrameResumes ==
  pc = "done" =>
    \A o \in GRSpans : \A i \in ChildSpans(o) :
      (IsGetter(o) /\ IsMethodNode(o) /\ IsMethodNode(i) /\ ReturnsBelow(i) # {}) =>
        /\ \A r \in OwnReturns(o) :
             ~GRNode(r).arg =>
               DiagCount(r) = 1 /\ MessageAt(r) = ExpectedMessage(NameOf(o))
        /\ (OwnReturns(o) = {} /\ OracleContinues(o)) =>
             DiagCount(o) = 1 /\ MessageAt(o) = ExpectedMessage(NameOf(o))

NoFrameAtEnd == pc = "done" => getter_name = None /\ has_return = FALSE /\ gr_stack = <<>>

CallSpans == {c \in GRSpans : GRNode(c).kind = "Call"}

\* f(a, b, { get: ... }): the callee is a plain name
PlainCall(c) == GRNode(c).call.callee.kind = "Ident"

\* C14: a call is analysed as a getter shape only with exactly three
\* arguments and a member callee: a call with another number of arguments
\* and a three-argument plain function call f(a, b, { get: function() {} })
\* give no diagnostic for the `get` entry of the last argument.
C14_OnlyMemberCalleeAnalysed ==
  pc = "done" =>
    \A c \in CallSpans :
      (GRNode(c).call.nargs # 3 \/ PlainCall(c)) => DiagCount(PropSpan(c)) = 0

\* Object.defineProperty(target, key, { ... }) with a `get` function or method
\* somewhere among the properties of the object literal
DefinesGetter(c) ==
  LET call == GRNode(c).call IN
    /\ call.callee = MemberCallee("Object", "defineProperty")
    /\ call.nargs = 3
    /\ \E k \in 1..Len(call.props) :
         call.props[k].key = IdentKey("get") /\ PropHasBody(call.props[k])

\* C15: the diagnostics for the `get` entry of a defineProperty call do not
\* depend on where the entry stands among the properties: a `get` function
\* whose body end is reachable is reported once at the entry, before or
\* after other identifier-keyed properties such as `enumerable`.
C15_GetEntryAtAnyPosition ==
  pc = "done" =>
    \A c \in CallSpans :
      (DefinesGetter(c) /\ OracleContinues(c)) => DiagCount(PropSpan(c)) = 1

-----------------------------------------------------------------------------
(* no-cond-assign: the syntax tree *)

\* a node; kids are its child nodes, the test of a statement first.  The
\* parser keeps the parentheses of the source as Paren nodes, so that the
\* operand `(b = c)` is a Paren around an Assign; a tree built in another
\* way can hold an Assign directly under an operator.
CANode(kind, op, has_test, kids) ==
  [kind |-> kind, op |-> op, has_test |-> has_test, kids |-> kids]

IdentExpr == CANode("Ident", "", FALSE, <<>>)
AssignExpr == CANode("Assign", "=", FALSE, <<>>)
BinExpr(op, l, r) == CANode("Bin", op, FALSE, <<l, r>>)
ParenExpr(e) == CANode("Paren", "", FALSE, <<e>>)
\* a function or arrow expression whose body holds the expression e
FnExpr(e) == CANode("Fn", "", FALSE, <<e>>)
CondExpr(test) == CANode("Cond", "", TRUE, <<test, IdentExpr, IdentExpr>>)

BinaryOps == {"||", "&&", "=="}

RECURSIVE Exprs(_)
Exprs(d) ==
  IF d = 0 THEN {IdentExpr, AssignExpr}
  ELSE LET E == Exprs(d - 1)
           E0 == Exprs(0)
       IN E \cup {BinExpr(op, l, r) : op \in BinaryOps, l \in E, r \in E0}
            \cup {BinExpr(op, l, r) : op \in BinaryOps, l \in E0, r \in E}
            \cup {ParenExpr(e) : e \in E}
            \cup {FnExpr(e) : e \in E}
            \cup {CondExpr(e) : e \in E}

TestedStmtKinds == {"IfStmt", "WhileStmt", "DoWhileStmt", "ForStmt"}

\* statements nested in the body of the top statement
InnerStmts ==
  {CANode(k, "", TRUE, <<t>>) : k \in TestedStmtKinds, t \in Exprs(0)}

StmtBodies == {<<>>} \cup {<<b>> : b \in InnerStmts}

CAModules ==
  {CANode(k, "", TRUE, <<t>> \o body) :
     k \in TestedStmtKinds, t \in Exprs(MaxExprDepth), body \in StmtBodies}
  \cup {CANode("ForStmt", "", FALSE, body) : body \in StmtBodies}
  \cup {CANode("ExprStmt", "", FALSE, <<e>>) : e \in Exprs(MaxExprDepth)}

RECURSIVE CANodeAt(_, _)
CANodeAt(node, rel) ==
  IF rel = <<>> THEN node ELSE CANodeAt(node.kids[Head(rel)], Tail(rel))

CAAt(span) == CANodeAt(ca_module, Tail(span))

-----------------------------------------------------------------------------
(* no-cond-assign: NoCondAssignVisitor *)

CondAssignMessage == "Expected a conditional expression and instead saw an assignment"

\* check_condition, as the spans it reports in order
RECURSIVE check_condition_and(_, _)
check_condition_and(condition, span) ==
  IF condition.kind = "Assign" THEN <<span>>
  ELSE IF condition.kind = "Bin" /\ condition.op \in {"||", "&&"}
    THEN check_condition_and(condition.kids[1], Append(span, 1))
           \o check_condition_and(condition.kids[2], Append(span, 2))
    ELSE <<>>

RECURSIVE check_condition_unwrap(_, _)
check_condition_unwrap(condition, span) ==
  IF condition.kind = "Assign" THEN <<span>>
  ELSE IF condition.kind = "Paren"
    THEN check_condition_unwrap(condition.kids[1], Append(span, 1))
  ELSE IF condition.kind = "Bin" /\ condition.op = "||"
    THEN check_condition_unwrap(condition.kids[1], Append(span, 1))
           \o check_condition_unwrap(condition.kids[2], Append(span, 2))
    ELSE <<>>

RECURSIVE check_condition(_, _)
check_condition(condition, span) ==
  IF condition.kind = "Assign" THEN <<span>>
  ELSE IF condition.kind = "Bin" /\ condition.op = "||"
    THEN check_condition(condition.kids[1], Append(span, 1))
           \o check_condition(condition.kids[2], Append(span, 2))
    ELSE <<>>

\* NoCondAssignVisitor::add_diagnostic for each reported span
AddCondAssign(diags, spans) ==
  diags \o [k \in 1..Len(spans) |->
              [span |-> spans[k], code |-> "no-cond-assign", message |-> CondAssignMessage]]

KidSpans(span) == [j \in 1..Len(CAAt(span).kids) |-> Append(span, j)]

CAVisits(kind) == pc = "visit" /\ ca_work # <<>> /\ CAAt(Head(ca_work)).kind = kind

CAInit ==
  /\ pc = "start"
  /\ diagnostics = <<>>
  /\ ca_module \in CAModules
  /\ ca_work = <<>>
  /\ ft_cases = <<>>
  /\ leading_comments = <<>>
  /\ trailing_comments = <<>>
  /\ case_idx = 0
  /\ should_emit_err = FALSE
  /\ prev_span = DUMMY_SP
  /\ gr_module = <<>>
  /\ getter_name = None
  /\ has_return = FALSE
  /\ errors = <<>>
  /\ gr_stack = <<>>

\* lint_module: module.visit_all_with(module, &mut visitor)
CAStart ==
  /\ pc = "start"
  /\ pc' = "visit"
  /\ ca_work' = <<RootSpan>>
  /\ UNCHANGED <<diagnostics, ca_module, ft_vars, gr_vars>>

\* a statement with a test: check_condition(&stmt.test), then the children
VisitTested(kind) ==
  /\ CAVisits(kind)
  /\ LET span == Head(ca_work)
         stmt == CAAt(span)
     IN /\ diagnostics' =
             IF stmt.has_test
               THEN AddCondAssign(diagnostics, check_condition(stmt.kids[1], Append(span, 1)))
               ELSE diagnostics
        /\ ca_work' = KidSpans(span) \o Tail(ca_work)
  /\ UNCHANGED <<pc, ca_module, ft_vars, gr_vars>>

visit_if_stmt == VisitTested("IfStmt")

visit_while_stmt == VisitTested("WhileStmt")

visit_do_while_stmt == VisitTested("DoWhileStmt")

visit_for_stmt == VisitTested("ForStmt")

\* only a parenthesized test is checked, on the expression in the parentheses
visit_cond_expr ==
  /\ CAVisits("Cond")
  /\ LET span == Head(ca_work)
         test == CAAt(span).kids[1]
     IN /\ diagnostics' =
             IF test.kind = "Paren"
               THEN AddCondAssign(diagnostics,
                      check_condition(test.kids[1], Append(Append(span, 1), 1)))
               ELSE diagnostics
        /\ ca_work' = KidSpans(span) \o Tail(ca_work)
  /\ UNCHANGED <<pc, ca_module, ft_vars, gr_vars>>

\* any other node: no handler, the traversal goes on with its children
visit_other_node ==
  /\ pc = "visit"
  /\ ca_work # <<>>
  /\ CAAt(Head(ca_work)).kind \notin TestedStmtKinds \cup {"Cond"}
  /\ ca_work' = KidSpans(Head(ca_work)) \o Tail(ca_work)
  /\ UNCHANGED <<pc, diagnostics, ca_module, ft_vars, gr_vars>>

CAFinish ==
  /\ pc = "visit"
  /\ ca_work = <<>>
  /\ pc' = "done"
  /\ UNCHANGED <<diagnostics, ca_vars, ft_vars, gr_vars>>

CANext ==
  \/ CAStart
  \/ visit_if_stmt
  \/ visit_while_stmt
  \/ visit_do_while_stmt
  \/ visit_for_stmt
  \/ visit_cond_expr
  \/ visit_other_node
  \/ CAFinish

SpecCA == CAInit /\ [][CANext]_vars

-----------------------------------------------------------------------------
(* no-cond-assign: properties *)

RECURSIVE CASpansUnder(_, _)
CASpansUnder(node, span) ==
  {span} \cup UNION {CASpansUnder(node.kids[j], Append(span, j)) : j \in 1..Len(node.kids)}

\* every node from root down to the parent of a is a logical OR
OnlyThroughOr(root, a) ==
  \A k \in Len(root)..(Len(a) - 1) :
    CAAt(SubSeq(a, 1, k)).kind = "Bin" /\ CAAt(SubSeq(a, 1, k)).op = "||"

\* the assignments that are the test or an operand of its chain of ORs
OrReachable(root) ==
  {a \in CASpansUnder(CAAt(root), root) : CAAt(a).kind = "Assign" /\ OnlyThroughOr(root, a)}

\* if (a || (b = c)) { }
IfOrParenAssign ==
  CANode("IfStmt", "", TRUE, <<BinExpr("||", IdentExpr, ParenExpr(AssignExpr))>>)

InnerAssignSpan == <<1, 1, 2, 1>>

\* C8 as stated: `if (a || (b = c)) {}` gives one diagnostic, at the inner
\* assignment.
C8_ParenthesizedOperandFlagged ==
  (pc = "done" /\ ca_module = IfOrParenAssign) =>
    /\ Len(diagnostics) = 1
    /\ diagnostics[1].span = InnerAssignSpan

\* C8 as amended: for an `if` whose test is a logical OR with a parenthesized
\* assignment as right operand no diagnostic is positioned at that
\* assignment, and `if (a || (b = c)) {}` gives no diagnostic at all.
C8_ParenthesizedOperandNotFlagged ==
  \A l \in Exprs(0) : \A body \in StmtBodies :
    ca_module = CANode("IfStmt", "", TRUE,
                       <<BinExpr("||", l, ParenExpr(AssignExpr))>> \o body) =>
      /\ CountAt(diagnostics, InnerAssignSpan) = 0
      /\ ca_module = IfOrParenAssign => diagnostics = <<>>

C8_Witness == pc = "done" /\ ca_module = IfOrParenAssign /\ diagnostics = <<>>

NewDiagnostics == SubSeq(diagnostics', Len(diagnostics) + 1, Len(diagnostics'))

\* the step that visits a statement with a test reports exactly the
\* assignments reachable from the test through logical ORs, each once
TestReportsOrChain ==
  (pc = "visit" /\ ca_work # <<>> /\ CAAt(Head(ca_work)).kind \in TestedStmtKinds
     /\ CAAt(Head(ca_work)).has_test /\ ca_work' # ca_work) =>
    LET test == Append(Head(ca_work), 1) IN
      /\ SubSeq(diagnostics', 1, Len(diagnostics)) = diagnostics
      /\ {NewDiagnostics[k].span : k \in 1..Len(NewDiagnostics)} = OrReachable(test)
      /\ Len(NewDiagnostics) = Cardinality(OrReachable(test))
      /\ \A k \in 1..Len(NewDiagnostics) :
           /\ NewDiagnostics[k].code = "no-cond-assign"
           /\ NewDiagnostics[k].message = CondAssignMessage

\* if ((x = 0)) {}   while (a || (b = c)) {}   if ((a = b) && c) {}
NotFlaggedExamples ==
  {CANode("IfStmt", "", TRUE, <<ParenExpr(AssignExpr)>>),
   CANode("WhileStmt", "", TRUE, <<BinExpr("||", IdentExpr, ParenExpr(AssignExpr))>>),
   CANode("IfStmt", "", TRUE, <<BinExpr("&&", ParenExpr(AssignExpr), IdentExpr)>>)}

\* C9: for the test of if, while, do-while and for, check_condition reports
\* an assignment exactly when it is the test itself or is reached from the
\* test through logical-OR expressions only, once each and at its own span;
\* parentheses, other operators and function bodies are not entered, so the
\* three examples give no diagnostic.
C9_OnlyOrChainsAreSearched ==
  /\ [][TestReportsOrChain]_vars
  /\ [](ca_module \in NotFlaggedExamples => diagnostics = <<>>)

C9_Witness ==
  /\ pc = "done"
  /\ \E k \in 1..Len(diagnostics) :
       /\ Len(diagnostics[k].span) > 3
       /\ diagnostics[k].span \in OrReachable(<<1, 1>>)

=============================================================================
